---- MODULE Spec2Model ----
(***************************************************************************)
(* Model of the annual projection engine of src/app.py:                    *)
(* calculate_monthly_loan_payment and simulate_life_plan.                  *)
(*                                                                         *)
(* Python numbers are modelled as exact rationals [n, d] in lowest terms   *)
(* (d > 0).  Every rate the model draws is a dyadic fraction, for which    *)
(* the IEEE-754 double arithmetic of the program is exact as well, so      *)
(* int(x) of the program is Trunc(x) of the model.  The one place where    *)
(* the program's doubles round is the division of the annuity formula;     *)
(* there the model keeps the exact quotient.                               *)
(***************************************************************************)
EXTENDS Integers, Sequences, FiniteSets, TLC

\* ------------------------------------------------------------------------
\* Bounds of the model
\* ------------------------------------------------------------------------
MaxYears == 3

\* ------------------------------------------------------------------------
\* Program constants
\* ------------------------------------------------------------------------
ManToYen == 10000
ThousandToYen == 1000
MonthsPerYear == 12
Age60 == 60
Age65 == 65

\* ------------------------------------------------------------------------
\* Rational arithmetic (Python float/int arithmetic on exact values)
\* ------------------------------------------------------------------------
Abs(x) == IF x < 0 THEN -x ELSE x

RECURSIVE GCD(_, _)
GCD(a, b) == IF b = 0 THEN a ELSE GCD(b, a % b)

Norm(n, d) ==
    LET g == GCD(Abs(n), d)
    IN  IF n >= 0 THEN [n |-> n \div g, d |-> d \div g]
                  ELSE [n |-> -((-n) \div g), d |-> d \div g]

Q(i) == [n |-> i, d |-> 1]

Frac(n, d) == Norm(n, d)

RAdd(a, b) ==
    LET g == GCD(a.d, b.d)
        L == (a.d \div g) * b.d
    IN  Norm(a.n * (L \div a.d) + b.n * (L \div b.d), L)

RNeg(a) == [n |-> -a.n, d |-> a.d]

RSub(a, b) == RAdd(a, RNeg(b))

RMul(a, b) ==
    LET g1 == GCD(Abs(a.n), b.d)
        g2 == GCD(Abs(b.n), a.d)
        an == IF a.n >= 0 THEN a.n \div g1 ELSE -((-a.n) \div g1)
        bn == IF b.n >= 0 THEN b.n \div g2 ELSE -((-b.n) \div g2)
    IN  Norm(an * bn, (a.d \div g2) * (b.d \div g1))

RInv(a) == IF a.n > 0 THEN [n |-> a.d, d |-> a.n] ELSE [n |-> -a.d, d |-> -a.n]

\* a / b for b # 0 (the callers test b = 0 first: ZeroDivisionError)
RDiv(a, b) == RMul(a, RInv(b))

RECURSIVE RPow(_, _)
RPow(a, k) ==
    IF k = 0 THEN Q(1)
    ELSE IF k % 2 = 0 THEN LET half == RPow(a, k \div 2) IN RMul(half, half)
    ELSE RMul(a, RPow(a, k - 1))

RIsZero(a) == a.n = 0

\* int(x): truncation toward zero
Trunc(a) == IF a.n >= 0 THEN a.n \div a.d ELSE -((-a.n) \div a.d)

\* Python's a % b for b # 0 (the result has the sign of b)
PyMod(a, b) == IF b > 0 THEN a % b ELSE -((-a) % (-b))

\* ------------------------------------------------------------------------
\* Configuration (the dictionary handed to simulate_life_plan)
\* ------------------------------------------------------------------------
ExpKeys == {"housing", "food", "transportation", "education", "utilities",
            "communication", "leisure", "medical", "other"}

ExpAllKeys == ExpKeys \cup {k \o "_at_60" : k \in ExpKeys}
                      \cup {k \o "_at_65" : k \in ExpKeys}

SchoolTypes == {"kindergarten", "elementary_school", "junior_high_school",
                "high_school", "university"}

Member(nm, age) == [name |-> nm, initial_age |-> age]

Policy(nm, prem, mat, pay, st) ==
    [name |-> nm, monthly_premium |-> prem, maturity_year |-> mat,
     payout_amount |-> pay, start_year |-> st]

Lump(nm, amt, yr) == [name |-> nm, amount |-> amt, year |-> yr]

\* The neutral configuration the input families below are variations of:
\* the layout of get_initial_data with small amounts.
BaseData ==
    [family |->
        [members |-> << Member("A", 30) >>,
         years_to_simulate |-> 1,
         initial_assets |-> 0,
         investment_return_rate |-> Q(0),
         inflation_rate |-> Q(0),
         income_growth_rate |-> Q(0),
         income_growth_step_years |-> 1],
     income |->
        [monthly_salary_main |-> 1, monthly_salary_sub |-> 0, bonus_annual |-> 1,
         monthly_salary_main_at_60 |-> 0, monthly_salary_sub_at_60 |-> 0,
         bonus_annual_at_60 |-> 0,
         monthly_salary_main_at_65 |-> 0, monthly_salary_sub_at_65 |-> 0,
         bonus_annual_at_65 |-> 0],
     expenditure |->
        [k \in ExpAllKeys |-> IF k \in {"housing", "food"} THEN 1 ELSE 0],
     school_lump_sums |->
        [s \in SchoolTypes |->
            [amount |-> 0, start_age |-> 0, duration |-> 0, annual_cost |-> 0]],
     insurance_policies |-> << >>,
     other_lump_expenditures |-> << >>,
     housing_loan |->
        [loan_amount |-> 0, loan_interest_rate |-> Q(0),
         loan_term_years |-> 0, start_year |-> 1]]

Horizons == 1 .. MaxYears

\* Household lists: empty, one member around the two thresholds, two members,
\* and two members carrying the same name.
RefAges == {30, 58, 59, 60, 63, 64, 65}

MemberLists ==
    { << >> }
    \cup { << Member("A", a) >> : a \in RefAges }
    \cup { << Member("A", 59), Member("B", 64) >>,
           << Member("B", 64), Member("A", 30) >>,
           << Member("A", 30), Member("A", 60) >>,
           << Member("A", 59), Member("A", 30) >> }

Half == Frac(1, 2)
Eighth == Frac(1, 8)

\* Age overrides and income growth
FamAge ==
    { [BaseData EXCEPT
         !.family.years_to_simulate = y,
         !.family.members = ms,
         !.family.income_growth_rate = g,
         !.family.income_growth_step_years = st,
         !.income.monthly_salary_sub = 1,
         !.income.monthly_salary_main_at_60 = i60[1],
         !.income.bonus_annual_at_60 = i60[2],
         !.income.monthly_salary_main_at_65 = i65[1],
         !.income.monthly_salary_sub_at_65 = i65[2],
         !.expenditure["housing_at_60"] = e[1],
         !.expenditure["food_at_65"] = e[2]]
      : y \in Horizons, ms \in MemberLists, g \in {Q(0), Half}, st \in {1, 2},
        i60 \in {0, 2} \X {0, 2}, i65 \in {0, 3} \X {0, 3},
        e \in {0, 2} \X {0, 3} }

\* Housing loan against the housing line; a non-zero rate only with a term
\* whose annuity factor (1 + i)^n stays small
LoanTerms == (({Q(0)}) \X {-1, 0, 1, 2}) \cup (({Q(12)}) \X {-1, 0, 1})

FamLoan ==
    { [BaseData EXCEPT
         !.family.years_to_simulate = y,
         !.family.members = << Member("A", a) >>,
         !.expenditure["housing"] = h[1],
         !.expenditure["housing_at_60"] = h[2],
         !.housing_loan.loan_amount = amt,
         !.housing_loan.loan_interest_rate = rt[1],
         !.housing_loan.loan_term_years = rt[2],
         !.housing_loan.start_year = sy]
      : y \in Horizons, a \in {30, 59}, h \in {0, 1} \X {0, 2},
        amt \in {-1, 0, 1}, rt \in LoanTerms, sy \in {0, 1, 2, 3} }

\* Rates: inflation, investment return, income growth, signed initial assets
FamRates ==
    { [BaseData EXCEPT
         !.family.years_to_simulate = y,
         !.family.initial_assets = ia,
         !.family.investment_return_rate = r,
         !.family.inflation_rate = inf,
         !.family.income_growth_rate = g,
         !.income.monthly_salary_main = m,
         !.expenditure["food"] = f]
      : y \in Horizons, ia \in {-1, 0, 100}, r \in {Q(0), Half},
        inf \in {Q(0), Eighth}, g \in {Q(0), Eighth}, m \in {0, 1},
        f \in {0, 1, 11} }

\* School stages against the ages of the household: a kindergarten stage
\* with a varying start age and duration, an elementary stage that overlaps it
NoSchool == [amount |-> 0, start_age |-> 0, duration |-> 0, annual_cost |-> 0]

SchoolConfig(start_age, duration, elementary) ==
    [s \in SchoolTypes |->
        IF s = "kindergarten"
          THEN [amount |-> 1, start_age |-> start_age, duration |-> duration,
                annual_cost |-> 2]
        ELSE IF s = "elementary_school" /\ elementary
          THEN [amount |-> 3, start_age |-> 6, duration |-> 2, annual_cost |-> 4]
        ELSE NoSchool]

SchoolHouseholds ==
    { << >>,
      << Member("A", 30) >>,
      << Member("A", 30), Member("B", 5) >>,
      << Member("A", 30), Member("B", 5), Member("C", 5) >>,
      << Member("A", 30), Member("B", 4), Member("C", 6) >>,
      << Member("A", 30), Member("B", 5), Member("B", 5) >>,
      << Member("B", 5), Member("B", 7) >> }

FamSchool ==
    { [BaseData EXCEPT
         !.family.years_to_simulate = y,
         !.family.members = ms,
         !.school_lump_sums = SchoolConfig(sc[1], sc[2], el)]
      : y \in Horizons, ms \in SchoolHouseholds,
        sc \in {0, 5, 6} \X {0, 1, 2}, el \in BOOLEAN }

\* Insurance policies and one-off expenses, with inflation, an age-60 food
\* value and a one-year loan
PolicyLists ==
    { << >>,
      << Policy("p", 1000, 0, 5, 1) >>,
      << Policy("p", 1000, 2, 5, 1) >>,
      << Policy("p", 1000, 2, 5, 0) >>,
      << Policy("p", 1000, 1, 5, 3) >>,
      << Policy("p", 1000, 9, 5, 2) >>,
      << Policy("p", 1000, 2, 5, 2), Policy("q", 2000, 2, 7, 1) >> }

LumpLists ==
    { << >>,
      << Lump("car", 3, 0) >>,
      << Lump("car", 3, 2) >>,
      << Lump("car", 3, 2), Lump("roof", 4, 2) >>,
      << Lump("car", 3, 1), Lump("roof", 4, 9) >> }

FamCash ==
    { [BaseData EXCEPT
         !.family.years_to_simulate = y,
         !.family.members = << Member("A", a) >>,
         !.family.inflation_rate = inf,
         !.expenditure["food_at_60"] = f60,
         !.insurance_policies = ps,
         !.other_lump_expenditures = ls,
         !.housing_loan.loan_amount = amt,
         !.housing_loan.loan_term_years = 1]
      : y \in Horizons, a \in {30, 59}, inf \in {Q(0), Eighth}, f60 \in {0, 3},
        ps \in PolicyLists, ls \in LumpLists, amt \in {0, 1} }

\* Configurations the specification calls invalid, next to valid ones: a
\* negative horizon, negative rates, a growth step below 1
FamInvalid ==
    { [BaseData EXCEPT
         !.family.years_to_simulate = y,
         !.family.income_growth_step_years = st,
         !.family.investment_return_rate = rt[1],
         !.family.inflation_rate = rt[2],
         !.family.income_growth_rate = rt[3]]
      : y \in {-1, 0, 1, 2}, st \in {-1, 0, 1},
        rt \in {Q(0), Frac(-1, 2)} \X {Q(0), Frac(-1, 2)} \X {Q(0), Frac(-1, 2)} }

\* The end-to-end scenarios of the specification
ScenarioFlat ==
    [BaseData EXCEPT
       !.family.years_to_simulate = 5,
       !.family.initial_assets = 100,
       !.income.monthly_salary_main = 5,
       !.income.bonus_annual = 0,
       !.expenditure["housing"] = 0,
       !.expenditure["food"] = 0,
       !.other_lump_expenditures =
           [i \in 1 .. 5 |-> Lump("flat", 40, i)]]

ScenarioLoan ==
    [BaseData EXCEPT
       !.family.years_to_simulate = 11,
       !.housing_loan.loan_amount = 1200,
       !.housing_loan.loan_term_years = 10,
       !.housing_loan.start_year = 1]

Configs ==
    FamAge \cup FamLoan \cup FamRates \cup FamSchool \cup FamCash \cup FamInvalid
    \cup {ScenarioFlat, ScenarioLoan}

\* ------------------------------------------------------------------------
\* calculate_monthly_loan_payment
\* ------------------------------------------------------------------------
\* The result is [raised, formula, value]: raised is TRUE when the call ends
\* in a ZeroDivisionError, formula is TRUE when the annuity formula was
\* evaluated, value is the returned amount in yen.
LoanResult(r, f, v) == [raised |-> r, formula |-> f, value |-> v]

\* Variant: no separate branch for a zero rate
calculate_monthly_loan_payment_NoZeroRate(loan_amount_man, annual_interest_rate, loan_term_years) ==
    LET loan_amount_yen == loan_amount_man * ManToYen
        monthly_interest_rate == RDiv(annual_interest_rate, Q(MonthsPerYear))
        num_payments == loan_term_years * MonthsPerYear
        growth == RPow(RAdd(Q(1), monthly_interest_rate), num_payments)
        denominator == RSub(growth, Q(1))
    IN  IF loan_amount_yen <= 0 \/ loan_term_years <= 0
          THEN LoanResult(FALSE, FALSE, Q(0))
        ELSE IF RIsZero(denominator)
          THEN LoanResult(TRUE, TRUE, Q(0))
        ELSE LoanResult(FALSE, TRUE,
                 RDiv(RMul(Q(loan_amount_yen), RMul(monthly_interest_rate, growth)),
                      denominator))

calculate_monthly_loan_payment(loan_amount_man, annual_interest_rate, loan_term_years) ==
    LET loan_amount_yen == loan_amount_man * ManToYen
        monthly_interest_rate == RDiv(annual_interest_rate, Q(MonthsPerYear))
        num_payments == loan_term_years * MonthsPerYear
        growth == RPow(RAdd(Q(1), monthly_interest_rate), num_payments)
        denominator == RSub(growth, Q(1))
    IN  IF loan_amount_yen <= 0 \/ loan_term_years <= 0
          THEN LoanResult(FALSE, FALSE, Q(0))
        ELSE IF RIsZero(monthly_interest_rate)
          THEN LoanResult(FALSE, FALSE, Frac(loan_amount_yen, num_payments))
        ELSE IF RIsZero(denominator)
          THEN LoanResult(TRUE, TRUE, Q(0))
        ELSE LoanResult(FALSE, TRUE,
                 RDiv(RMul(Q(loan_amount_yen), RMul(monthly_interest_rate, growth)),
                      denominator))

\* ------------------------------------------------------------------------
\* simulate_life_plan: state
\* ------------------------------------------------------------------------
VARIABLES
    pc,                                       \* "call", "loop", "done", "error"
    data,                                     \* the configuration argument
    year,                                     \* the loop variable
    results,                                  \* rows appended so far
    current_assets,
    current_monthly_salary_main_yen,
    current_monthly_salary_sub_yen,
    current_bonus_annual_yen,
    current_expenditure_values_thousand_yen,
    member_current_ages_in_sim,
    income_exp_changed_at_60,
    income_exp_changed_at_65,
    monthly_loan_payment_yen,
    steps                                     \* per-year log of the unrounded values

\* main: what a browser session keeps between reruns and what a rerun shows
VARIABLES
    simulation_df,                            \* st.session_state.simulation_df
    df_source,                                \* the configuration simulation_df was computed from
    report,                                   \* the assets message of the results section
    suggestion,                               \* the advice shown by this rerun
    rerun,                                    \* trigger and outcome of the last rerun
    reruns,                                   \* number of reruns so far
    calls                                     \* the last two completed simulate_life_plan calls

mainvars == << simulation_df, df_source, report, suggestion, rerun, reruns, calls >>

\* The upload of a downloaded file: unflatten_data_from_csv and its caller
VARIABLES
    csv_pc,                                   \* "none", "file", "rows", "returned", "raised"
    df_uploaded,                              \* the rows of the file
    file_edit,                                \* the row a user added to the file, if any
    row_index,                                \* rows of df_uploaded handled so far
    new_data,                                 \* the dictionary the name new_data is bound to
    initial_data_structure,                   \* the dictionary passed by the caller
    aliased,                                  \* top-level keys whose value both dictionaries share
    uploaded_data                             \* what the caller received, line 668

csvvars == << csv_pc, df_uploaded, file_edit, row_index, new_data,
              initial_data_structure, aliased, uploaded_data >>

simvars == << year, results, current_assets,
              current_monthly_salary_main_yen, current_monthly_salary_sub_yen,
              current_bonus_annual_yen, current_expenditure_values_thousand_yen,
              member_current_ages_in_sim, income_exp_changed_at_60,
              income_exp_changed_at_65, monthly_loan_payment_yen, steps >>

vars == << pc, data, year, results, current_assets,
           current_monthly_salary_main_yen, current_monthly_salary_sub_yen,
           current_bonus_annual_yen, current_expenditure_values_thousand_yen,
           member_current_ages_in_sim, income_exp_changed_at_60,
           income_exp_changed_at_65, monthly_loan_payment_yen, steps, mainvars,
           csvvars >>

\* {member["name"]: member["initial_age"] for member in members}: a later
\* entry of the list replaces an earlier one of the same name
RECURSIVE DictOfMembers(_)
DictOfMembers(ms) ==
    IF ms = << >> THEN << >>
    ELSE LET n == Len(ms)
             front == DictOfMembers(SubSeq(ms, 1, n - 1))
         IN  [k \in (DOMAIN front) \cup {ms[n].name} |->
                 IF k = ms[n].name THEN ms[n].initial_age ELSE front[k]]

RECURSIVE SumOver(_, _)
SumOver(S, f) ==
    IF S = {} THEN 0
    ELSE LET x == CHOOSE x \in S : TRUE
         IN  f[x] + SumOver(S \ {x}, f)

NoReport == [kind |-> "none", first_negative_year |-> 0, max_negative_amount |-> 0,
             final_assets |-> 0]

NoSuggestion ==
    [given |-> FALSE, tone |-> "none", final_assets |-> 0, initial_assets |-> 0,
     years_to_simulate |-> 0, average_annual_balance |-> 0,
     average_annual_income |-> 0, average_annual_expenditure |-> 0,
     investment_return_rate |-> Q(0)]

NoRerun ==
    [trigger |-> "none", loan_configured |-> FALSE, outcome |-> "none",
     run_button_reached |-> FALSE, session_data |-> << >>]

\* A session in which main has not run yet
SessionStart ==
    /\ simulation_df = << >>
    /\ df_source = << >>
    /\ report = NoReport
    /\ suggestion = NoSuggestion
    /\ rerun = NoRerun
    /\ reruns = 0
    /\ calls = << >>

NoEdit == [edited |-> FALSE, position |-> 0,
           row |-> [item |-> << >>, value |-> [t |-> "nan", i |-> 0, q |-> Q(0), s |-> ""]]]

NotUploaded == [status |-> "none", value |-> [t |-> "dict", val |-> << >>]]

\* No file has been uploaded
NoUpload ==
    /\ csv_pc = "none"
    /\ df_uploaded = << >>
    /\ file_edit = NoEdit
    /\ row_index = 0
    /\ new_data = << >>
    /\ initial_data_structure = << >>
    /\ aliased = {}
    /\ uploaded_data = NotUploaded

\* The locals of simulate_life_plan before a call
LocalsUnset ==
    /\ year = 0
    /\ results = << >>
    /\ current_assets = Q(0)
    /\ current_monthly_salary_main_yen = Q(0)
    /\ current_monthly_salary_sub_yen = Q(0)
    /\ current_bonus_annual_yen = Q(0)
    /\ current_expenditure_values_thousand_yen = << >>
    /\ member_current_ages_in_sim = << >>
    /\ income_exp_changed_at_60 = FALSE
    /\ income_exp_changed_at_65 = FALSE
    /\ monthly_loan_payment_yen = Q(0)
    /\ steps = << >>

Init ==
    /\ pc = "call"
    /\ data \in Configs
    /\ SessionStart
    /\ NoUpload
    /\ year = 0
    /\ results = << >>
    /\ current_assets = Q(0)
    /\ current_monthly_salary_main_yen = Q(0)
    /\ current_monthly_salary_sub_yen = Q(0)
    /\ current_bonus_annual_yen = Q(0)
    /\ current_expenditure_values_thousand_yen = << >>
    /\ member_current_ages_in_sim = << >>
    /\ income_exp_changed_at_60 = FALSE
    /\ income_exp_changed_at_65 = FALSE
    /\ monthly_loan_payment_yen = Q(0)
    /\ steps = << >>

\* Lines 116-155: the locals before the loop
Setup ==
    /\ pc = "call"
    /\ LET family == data.family
           housing_loan == data.housing_loan
           loan == calculate_monthly_loan_payment(housing_loan.loan_amount,
                       housing_loan.loan_interest_rate, housing_loan.loan_term_years)
       IN  /\ current_assets' = Q(family.initial_assets * ManToYen)
           /\ current_monthly_salary_main_yen' = Q(data.income.monthly_salary_main * ManToYen)
           /\ current_monthly_salary_sub_yen' = Q(data.income.monthly_salary_sub * ManToYen)
           /\ current_bonus_annual_yen' = Q(data.income.bonus_annual * ManToYen)
           /\ current_expenditure_values_thousand_yen' =
                  [k \in ExpKeys |-> data.expenditure[k]]
           /\ member_current_ages_in_sim' = DictOfMembers(family.members)
           /\ income_exp_changed_at_60' = FALSE
           /\ income_exp_changed_at_65' = FALSE
           /\ monthly_loan_payment_yen' = loan.value
           /\ pc' = IF loan.raised THEN "error" ELSE "loop"
           /\ year' = 1
    /\ results' = << >>
    /\ steps' = << >>
    /\ UNCHANGED data
    /\ UNCHANGED << mainvars, csvvars >>

\* Variant: the housing line stays suppressed after the loan's last year
HousingCoveredByLoan_NoEnd(housing_loan, y) ==
    /\ housing_loan.loan_amount > 0
    /\ housing_loan.start_year <= y

\* The housing line is covered by the loan (lines 220-222)
HousingCoveredByLoan(housing_loan, y) ==
    /\ housing_loan.loan_amount > 0
    /\ housing_loan.start_year <= y
    /\ (y - housing_loan.start_year + 1) <= housing_loan.loan_term_years

\* Variant: the payment is charged in every year from start_year on
LoanPaymentDue_NoEnd(housing_loan, y) ==
    /\ housing_loan.loan_amount > 0
    /\ housing_loan.loan_term_years > 0
    /\ housing_loan.start_year <= y

\* The loan payment is charged (line 242)
LoanPaymentDue(housing_loan, y) ==
    /\ housing_loan.loan_amount > 0
    /\ housing_loan.loan_term_years > 0
    /\ housing_loan.start_year <= y
    /\ (y - housing_loan.start_year + 1) <= housing_loan.loan_term_years

\* Variant: the growth step is also taken in year 1
GrowthDue_InYear1(c60, c65, y, step_years) ==
    /\ ~c60 /\ ~c65
    /\ PyMod(y - 1, step_years) = 0

\* Variant: only the first growth step is taken
GrowthDue_FirstStepOnly(c60, c65, y, step_years) ==
    /\ ~c60 /\ ~c65
    /\ PyMod(y - 1, step_years) = 0
    /\ y > 1
    /\ y <= step_years + 1

\* Variant: growth stops only at the age-65 flag
GrowthDue_Ignores60(c60, c65, y, step_years) ==
    /\ ~c65
    /\ PyMod(y - 1, step_years) = 0
    /\ y > 1

\* The income growth step is taken (lines 160-161)
GrowthDue(c60, c65, y, step_years) ==
    /\ ~c60 /\ ~c65
    /\ PyMod(y - 1, step_years) = 0
    /\ y > 1

\* Variant: the age-60 block is entered only at the age of exactly 60
Crosses60_Exactly(c60, age) == ~c60 /\ age = Age60

\* Variant: the age-60 block is entered again in every year from 60 on
Crosses60_Again(c60, age) == age >= Age60

\* The age-60 block is entered (line 174) / the age-65 block (line 190)
Crosses60(c60, age) == ~c60 /\ age >= Age60
Crosses65(c65, age) == ~c65 /\ age >= Age65

\* One guarded assignment of the age-60 block (lines 176-186): the configured
\* value v replaces the current value only when it is positive
ApplyAt60(cur, v, newval, fire) == IF fire /\ v > 0 THEN newval ELSE cur

\* Variant: a zero age-65 value is assigned as well
ApplyAt65_ZeroAssigned(cur, v, newval, fire) == IF fire THEN newval ELSE cur

\* One guarded assignment of the age-65 block (lines 192-202)
ApplyAt65(cur, v, newval, fire) == IF fire /\ v > 0 THEN newval ELSE cur

\* Variant: the loop stops one year early (range(1, years_to_simulate))
LoopContinues_StopsEarly(y, years_to_simulate) == y < years_to_simulate

\* range(1, years_to_simulate + 1) still has the value y (line 157)
LoopContinues(y, years_to_simulate) == y <= years_to_simulate

\* Variant: the carried assets are clamped at zero
AssetUpdate_Clamped(assets, rate, balance) ==
    LET a == RAdd(RMul(assets, RAdd(Q(1), rate)), balance)
    IN  IF a.n < 0 THEN Q(0) ELSE a

\* Line 278: growth of the carried assets, then the year's balance
AssetUpdate(assets, rate, balance) == RAdd(RMul(assets, RAdd(Q(1), rate)), balance)

\* Variant: the payout is received in every year from the maturity year on
PayoutDue_FromMaturity(policy, y) ==
    policy["maturity_year"] > 0 /\ y >= policy["maturity_year"]

\* The policy pays out in year y (line 209)
PayoutDue(policy, y) ==
    policy["maturity_year"] > 0 /\ y = policy["maturity_year"]

\* Variant: the premium is no longer charged after the maturity year
PremiumDue_UntilMaturity(policy, y) ==
    /\ policy["start_year"] <= y
    /\ (policy["maturity_year"] > 0 => y <= policy["maturity_year"])

\* The premium of the policy is charged in year y (line 236)
PremiumDue(policy, y) == policy["start_year"] <= y

\* Variant: the exponent counts the current year as well
InflationFactor_FullYears(rate, y) == RPow(RAdd(Q(1), rate), y)

\* (1 + inflation_rate) ** (year - 1) (lines 228, 230)
InflationFactor(rate, y) == RPow(RAdd(Q(1), rate), y - 1)

\* The lump sum of a school stage is due at this age (line 255)
SchoolLumpSumDue(info, age) == info.start_age > 0 /\ age = info.start_age

\* The member is enrolled in the school stage at this age (lines 259-262)
SchoolEnrolled(info, age) ==
    /\ info.start_age > 0
    /\ info.duration > 0
    /\ info.start_age <= age
    /\ age <= info.start_age + info.duration - 1

\* Variant: a one-off expense is charged again in the years after its year
OtherLumpDue_FromYear(lump_sum, y) == lump_sum["year"] <= y

\* The one-off expense falls in year y (line 268)
OtherLumpDue(lump_sum, y) == lump_sum["year"] = y

\* Variant: the loop works on the configuration's own expenditure dictionary
ConfigAfterIteration_Aliased(config, expenditure_values) ==
    [config EXCEPT !.expenditure =
        [k \in ExpAllKeys |-> IF k \in ExpKeys THEN expenditure_values[k] ELSE @[k]]]

\* The configuration after one iteration: lines 140 and 144 build new
\* dictionaries, so the assignments of lines 162-204 and 327-328 write no
\* field of the argument
ConfigAfterIteration(config, expenditure_values) == config

\* One iteration of the loop, lines 157-328
YearStep ==
    /\ pc = "loop"
    /\ LoopContinues(year, data.family.years_to_simulate)
    /\ LET family == data.family
           income_config == data.income
           expenditure_config == data.expenditure
           school_lump_sums_config == data.school_lump_sums
           insurance_policies == data.insurance_policies
           other_lump_expenditures == data.other_lump_expenditures
           housing_loan == data.housing_loan
           step_years == family.income_growth_step_years
           c60 == income_exp_changed_at_60
           c65 == income_exp_changed_at_65
           \* line 161: the modulo is evaluated only when both flags are clear
           raises == ~c60 /\ ~c65 /\ step_years = 0
       IN  IF raises
           THEN /\ pc' = "error"
                /\ UNCHANGED << data, year, results, current_assets,
                                current_monthly_salary_main_yen,
                                current_monthly_salary_sub_yen,
                                current_bonus_annual_yen,
                                current_expenditure_values_thousand_yen,
                                member_current_ages_in_sim,
                                income_exp_changed_at_60, income_exp_changed_at_65,
                                monthly_loan_payment_yen, steps >>
                /\ UNCHANGED << mainvars, csvvars >>
           ELSE
           LET \* lines 160-164
               grow == GrowthDue(c60, c65, year, step_years)
               factor == RAdd(Q(1), family.income_growth_rate)
               main1 == IF grow THEN RMul(current_monthly_salary_main_yen, factor)
                                ELSE current_monthly_salary_main_yen
               sub1 == IF grow THEN RMul(current_monthly_salary_sub_yen, factor)
                               ELSE current_monthly_salary_sub_yen
               bonus1 == IF grow THEN RMul(current_bonus_annual_yen, factor)
                                 ELSE current_bonus_annual_yen
               \* lines 170-172
               has_members == family.members # << >>
               first_member_age_in_year ==
                   IF has_members
                     THEN member_current_ages_in_sim[family.members[1].name]
                     ELSE -1
               \* lines 174-188
               fire60 == has_members /\ Crosses60(c60, first_member_age_in_year)
               main2 == ApplyAt60(main1, income_config.monthly_salary_main_at_60,
                            Q(income_config.monthly_salary_main_at_60 * ManToYen), fire60)
               sub2 == ApplyAt60(sub1, income_config.monthly_salary_sub_at_60,
                            Q(income_config.monthly_salary_sub_at_60 * ManToYen), fire60)
               bonus2 == ApplyAt60(bonus1, income_config.bonus_annual_at_60,
                            Q(income_config.bonus_annual_at_60 * ManToYen), fire60)
               exp2 == [k \in ExpKeys |->
                          ApplyAt60(current_expenditure_values_thousand_yen[k], expenditure_config[k \o "_at_60"],
                                    expenditure_config[k \o "_at_60"], fire60)]
               new60 == c60 \/ fire60
               \* lines 190-204
               fire65 == has_members /\ Crosses65(c65, first_member_age_in_year)
               main3 == ApplyAt65(main2, income_config.monthly_salary_main_at_65,
                            Q(income_config.monthly_salary_main_at_65 * ManToYen), fire65)
               sub3 == ApplyAt65(sub2, income_config.monthly_salary_sub_at_65,
                            Q(income_config.monthly_salary_sub_at_65 * ManToYen), fire65)
               bonus3 == ApplyAt65(bonus2, income_config.bonus_annual_at_65,
                            Q(income_config.bonus_annual_at_65 * ManToYen), fire65)
               exp3 == [k \in ExpKeys |->
                          ApplyAt65(exp2[k], expenditure_config[k \o "_at_65"],
                                    expenditure_config[k \o "_at_65"], fire65)]
               new65 == c65 \/ fire65
               \* lines 206-210
               annual_insurance_payout_yen ==
                   SumOver(DOMAIN insurance_policies,
                       [i \in DOMAIN insurance_policies |->
                           IF PayoutDue(insurance_policies[i], year)
                             THEN insurance_policies[i].payout_amount * ManToYen
                             ELSE 0])
               \* line 213
               annual_income_yen ==
                   RAdd(RAdd(RMul(RAdd(main3, sub3), Q(MonthsPerYear)), bonus3),
                        Q(annual_insurance_payout_yen))
               \* lines 217-225
               skip_housing == HousingCoveredByLoan(housing_loan, year)
               current_base_monthly_exp_thousand_yen ==
                   SumOver(IF skip_housing THEN ExpKeys \ {"housing"} ELSE ExpKeys, exp3)
               \* lines 228-230
               inflation == InflationFactor(family.inflation_rate, year)
               inflated_base_annual_expenditure_yen ==
                   RMul(Q(current_base_monthly_exp_thousand_yen * ThousandToYen * MonthsPerYear),
                        inflation)
               inflated_monthly_expenditure_for_display_yen ==
                   RMul(Q(current_base_monthly_exp_thousand_yen * ThousandToYen), inflation)
               \* lines 234-237
               annual_insurance_premium_yen ==
                   SumOver(DOMAIN insurance_policies,
                       [i \in DOMAIN insurance_policies |->
                           IF PremiumDue(insurance_policies[i], year)
                             THEN insurance_policies[i].monthly_premium * MonthsPerYear
                             ELSE 0])
               \* lines 240-243
               loan_due == LoanPaymentDue(housing_loan, year)
               annual_housing_loan_payment_yen ==
                   IF loan_due THEN RMul(monthly_loan_payment_yen, Q(MonthsPerYear))
                               ELSE Q(0)
               \* lines 246-263
               names == DOMAIN member_current_ages_in_sim
               annual_school_lump_sum_yen ==
                   SumOver(names \X SchoolTypes,
                       [p \in names \X SchoolTypes |->
                           LET age == member_current_ages_in_sim[p[1]]
                               info == school_lump_sums_config[p[2]]
                           IN  IF age > 0 /\ SchoolLumpSumDue(info, age)
                                 THEN info.amount * ManToYen ELSE 0])
               annual_school_enrollment_cost_yen ==
                   SumOver(names \X SchoolTypes,
                       [p \in names \X SchoolTypes |->
                           LET age == member_current_ages_in_sim[p[1]]
                               info == school_lump_sums_config[p[2]]
                           IN  IF age > 0 /\ SchoolEnrolled(info, age)
                                 THEN info.annual_cost * ManToYen ELSE 0])
               \* lines 266-269
               annual_other_lump_expenditure_yen ==
                   SumOver(DOMAIN other_lump_expenditures,
                       [i \in DOMAIN other_lump_expenditures |->
                           IF OtherLumpDue(other_lump_expenditures[i], year)
                             THEN other_lump_expenditures[i].amount * ManToYen
                             ELSE 0])
               \* line 272
               current_annual_total_expenditure_yen ==
                   RAdd(RAdd(inflated_base_annual_expenditure_yen,
                             annual_housing_loan_payment_yen),
                        Q(annual_insurance_premium_yen + annual_school_lump_sum_yen
                          + annual_school_enrollment_cost_yen
                          + annual_other_lump_expenditure_yen))
               \* line 275
               annual_balance_yen ==
                   RSub(annual_income_yen, current_annual_total_expenditure_yen)
               \* line 278
               new_assets ==
                   AssetUpdate(current_assets, family.investment_return_rate,
                               annual_balance_yen)
               \* lines 280-324
               row == [year |-> year,
                       ages |-> member_current_ages_in_sim,
                       annual_income |-> Trunc(annual_income_yen),
                       annual_expenditure |-> Trunc(current_annual_total_expenditure_yen),
                       annual_balance |-> Trunc(annual_balance_yen),
                       year_end_assets |-> Trunc(new_assets),
                       monthly_expenditure_total |->
                           Trunc(inflated_monthly_expenditure_for_display_yen),
                       insurance_premium |-> annual_insurance_premium_yen,
                       housing_loan_payment |-> Trunc(annual_housing_loan_payment_yen),
                       school_lump_sum |-> annual_school_lump_sum_yen,
                       school_enrollment_cost |-> annual_school_enrollment_cost_yen,
                       other_lump_expenditure |-> annual_other_lump_expenditure_yen,
                       insurance_payout |-> annual_insurance_payout_yen]
               log == [year |-> year,
                       c60_before |-> c60, c65_before |-> c65,
                       grew |-> grow,
                       has_members |-> has_members,
                       ref_age |-> first_member_age_in_year,
                       fired60 |-> fire60, fired65 |-> fire65,
                       inc_start |-> << current_monthly_salary_main_yen,
                                        current_monthly_salary_sub_yen,
                                        current_bonus_annual_yen >>,
                       inc_grown |-> << main1, sub1, bonus1 >>,
                       inc_after60 |-> << main2, sub2, bonus2 >>,
                       inc_final |-> << main3, sub3, bonus3 >>,
                       exp_start |-> current_expenditure_values_thousand_yen,
                       exp_after60 |-> exp2,
                       exp_final |-> exp3,
                       housing_skipped |-> skip_housing,
                       loan_charged |-> loan_due,
                       base_monthly |-> current_base_monthly_exp_thousand_yen,
                       loan_payment |-> annual_housing_loan_payment_yen,
                       inflated_base |-> inflated_base_annual_expenditure_yen,
                       ages |-> member_current_ages_in_sim,
                       income |-> annual_income_yen,
                       expense |-> current_annual_total_expenditure_yen,
                       balance |-> annual_balance_yen,
                       assets_before |-> current_assets,
                       assets |-> new_assets]
           IN  /\ current_monthly_salary_main_yen' = main3
               /\ current_monthly_salary_sub_yen' = sub3
               /\ current_bonus_annual_yen' = bonus3
               /\ current_expenditure_values_thousand_yen' = exp3
               /\ income_exp_changed_at_60' = new60
               /\ income_exp_changed_at_65' = new65
               /\ current_assets' = new_assets
               /\ results' = Append(results, row)
               /\ steps' = Append(steps, log)
               \* lines 327-328
               /\ member_current_ages_in_sim' =
                      [n \in names |-> member_current_ages_in_sim[n] + 1]
               /\ year' = year + 1
               /\ pc' = "loop"
               /\ data' = ConfigAfterIteration(data, exp3)
               /\ UNCHANGED monthly_loan_payment_yen
               /\ UNCHANGED << mainvars, csvvars >>

\* Line 330: the loop is exhausted and the rows are returned
Return ==
    /\ pc = "loop"
    /\ ~LoopContinues(year, data.family.years_to_simulate)
    /\ pc' = "done"
    /\ UNCHANGED << data, year, results, current_assets,
                    current_monthly_salary_main_yen, current_monthly_salary_sub_yen,
                    current_bonus_annual_yen, current_expenditure_values_thousand_yen,
                    member_current_ages_in_sim, income_exp_changed_at_60,
                    income_exp_changed_at_65, monthly_loan_payment_yen, steps >>
    /\ UNCHANGED << mainvars, csvvars >>

Next == Setup \/ YearStep \/ Return

Spec == Init /\ [][Next]_vars

\* ------------------------------------------------------------------------
\* main: the reruns of one browser session
\* ------------------------------------------------------------------------
MaxReruns == 3

MinYearsInput == 5

\* The negative-outcome scenario of the specification: no income, a flat
\* expense of 100,000 yen a year, initial assets of 50,000 yen, 3 years
ScenarioNegative ==
    [BaseData EXCEPT
       !.family.years_to_simulate = 3,
       !.family.initial_assets = 5,
       !.income.monthly_salary_main = 0,
       !.income.bonus_annual = 0,
       !.expenditure["housing"] = 0,
       !.expenditure["food"] = 0,
       !.other_lump_expenditures =
           [i \in 1 .. 3 |-> Lump("flat", 10, i)]]

SessionLumpLists ==
    { << >>,
      << Lump("car", 30, 2) >>,
      << Lump("car", 30, 2), Lump("roof", 20, 3) >> }

\* Session data a rerun can start from
SessionConfigs ==
    { [BaseData EXCEPT
         !.family.years_to_simulate = MinYearsInput,
         !.family.members = << Member("A", a) >>,
         !.family.initial_assets = ia,
         !.income.monthly_salary_main = m,
         !.expenditure["housing_at_60"] = 2,
         !.other_lump_expenditures = ls,
         !.housing_loan.loan_term_years = 1]
      : a \in {30, 59}, ia \in {0, 5}, m \in {0, 1}, ls \in SessionLumpLists }
    \cup {ScenarioNegative}

\* What triggers a rerun: an edited widget or a pressed button
Triggers == {"edit_assets", "edit_loan", "run", "ask", "ask_blank"}

\* Lines 732-863: the widgets write their values into the session data
WidgetValues(config, trigger) ==
    IF trigger = "edit_assets"
      THEN [config EXCEPT !.family.initial_assets = IF @ >= 100 THEN @ - 100 ELSE @ + 100]
    ELSE IF trigger = "edit_loan"
      THEN [config EXCEPT !.housing_loan.loan_amount = IF @ > 0 THEN 0 ELSE 1]
    ELSE config

\* Line 872: the total interest is to be shown
LoanConfigured(config) ==
    config.housing_loan.loan_amount > 0 /\ config.housing_loan.loan_term_years > 0

\* Line 873 reads monthly_loan_payment_yen, a name main never binds (it is a
\* local of simulate_life_plan, line 151): evaluating it raises NameError
TotalInterestRaises(config) == LoanConfigured(config)

\* Line 997: the rows whose year-end assets are negative
NegativeRows(df) == SelectSeq(df, LAMBDA r : r.year_end_assets < 0)

\* Line 999
FirstNegativeYear(negative_assets_df) == negative_assets_df[1].year

\* Variant: the amount of the first negative year
MaxNegativeAmount_First(negative_assets_df) == negative_assets_df[1].year_end_assets

\* Line 1000: the minimum of the negative year-end assets
MaxNegativeAmount(negative_assets_df) ==
    LET amounts == {negative_assets_df[i].year_end_assets : i \in DOMAIN negative_assets_df}
    IN  CHOOSE m \in amounts : \A x \in amounts : m <= x

\* Lines 997-1005
AssetsReport(df) ==
    LET negative_assets_df == NegativeRows(df)
    IN  IF negative_assets_df # << >>
          THEN [kind |-> "negative",
                first_negative_year |-> FirstNegativeYear(negative_assets_df),
                max_negative_amount |-> MaxNegativeAmount(negative_assets_df),
                final_assets |-> 0]
        ELSE [kind |-> "success", first_negative_year |-> 0,
              max_negative_amount |-> 0,
              final_assets |-> df[Len(df)].year_end_assets]

\* int(series.mean())
MeanInt(df, column) ==
    Trunc(Frac(SumOver(DOMAIN df, [i \in DOMAIN df |-> df[i][column]]), Len(df)))

\* Lines 342-347 and 372-392: the figures and the tone of the advice
get_gemini_suggestion(df, current_data) ==
    LET final_assets == df[Len(df)].year_end_assets
    IN  [given |-> TRUE,
         tone |-> IF final_assets < 0 THEN "urgent"
                  ELSE IF final_assets < 30000000 THEN "accelerate"
                  ELSE "excellent",
         final_assets |-> final_assets,
         initial_assets |-> current_data.family.initial_assets * ManToYen,
         years_to_simulate |-> current_data.family.years_to_simulate,
         average_annual_balance |-> MeanInt(df, "annual_balance"),
         average_annual_income |-> MeanInt(df, "annual_income"),
         average_annual_expenditure |-> MeanInt(df, "annual_expenditure"),
         investment_return_rate |-> current_data.family.investment_return_rate]

\* Line 1034
AdviceDue(described, df) == described /\ df # << >>

\* One rerun of main, lines 640-1040, up to the call of simulate_life_plan
\* when the run button was pressed and to the end otherwise
Rerun(trigger) ==
    /\ pc = "idle"
    /\ reruns < MaxReruns
    /\ reruns' = reruns + 1
    /\ LET config == WidgetValues(data, trigger)
           raised == TotalInterestRaises(config)
           run_simulation == trigger = "run"
           asked == trigger \in {"ask", "ask_blank"}
       IN  /\ data' = config
           /\ rerun' = [trigger |-> trigger,
                        loan_configured |-> LoanConfigured(config),
                        outcome |-> IF raised THEN "NameError"
                                    ELSE IF run_simulation THEN "running"
                                    ELSE "completed",
                        run_button_reached |-> ~raised,
                        session_data |-> config]
           /\ pc' = IF ~raised /\ run_simulation THEN "call" ELSE "idle"
           /\ report' = NoReport
           /\ suggestion' =
                  IF ~raised /\ asked /\ AdviceDue(trigger = "ask", simulation_df)
                    THEN get_gemini_suggestion(simulation_df, config)
                    ELSE NoSuggestion
    /\ UNCHANGED << simulation_df, df_source, calls >>
    /\ UNCHANGED << year, results, current_assets,
                    current_monthly_salary_main_yen, current_monthly_salary_sub_yen,
                    current_bonus_annual_yen, current_expenditure_values_thousand_yen,
                    member_current_ages_in_sim, income_exp_changed_at_60,
                    income_exp_changed_at_65, monthly_loan_payment_yen, steps >>
    /\ UNCHANGED csvvars

\* Lines 954-1005: the returned table is stored and the results section is
\* rendered; the rest of the rerun (lines 1011-1040) shows no advice, since
\* the advice button is not the pressed one
ShowResults ==
    /\ pc = "done"
    /\ rerun.outcome = "running"
    /\ simulation_df' = results
    /\ df_source' = << rerun.session_data >>
    /\ report' = AssetsReport(results)
    /\ suggestion' = NoSuggestion
    /\ rerun' = [rerun EXCEPT !.outcome = "completed"]
    /\ calls' = LET call == [config |-> rerun.session_data, config_after |-> data,
                             rows |-> results]
                IN  IF calls = << >> THEN << call >> ELSE << calls[Len(calls)], call >>
    /\ pc' = "idle"
    /\ year' = 0
    /\ results' = << >>
    /\ current_assets' = Q(0)
    /\ current_monthly_salary_main_yen' = Q(0)
    /\ current_monthly_salary_sub_yen' = Q(0)
    /\ current_bonus_annual_yen' = Q(0)
    /\ current_expenditure_values_thousand_yen' = << >>
    /\ member_current_ages_in_sim' = << >>
    /\ income_exp_changed_at_60' = FALSE
    /\ income_exp_changed_at_65' = FALSE
    /\ monthly_loan_payment_yen' = Q(0)
    /\ steps' = << >>
    /\ UNCHANGED << data, reruns >>
    /\ UNCHANGED csvvars

InitMain ==
    /\ pc = "idle"
    /\ data \in SessionConfigs
    /\ SessionStart
    /\ NoUpload
    /\ LocalsUnset

NextMain ==
    \/ \E trigger \in Triggers : Rerun(trigger)
    \/ Setup
    \/ YearStep
    \/ Return
    \/ ShowResults

SpecMain == InitMain /\ [][NextMain]_vars

\* ------------------------------------------------------------------------
\* The configuration as a Python object: dictionaries, lists, numbers, text
\* ------------------------------------------------------------------------
IntLeaf(i) == [t |-> "int", i |-> i, q |-> Q(0), s |-> ""]
FloatLeaf(q) == [t |-> "float", i |-> 0, q |-> q, s |-> ""]
StrLeaf(s) == [t |-> "str", i |-> 0, q |-> Q(0), s |-> s]
DictNode(f) == [t |-> "dict", val |-> f]
ListNode(items) == [t |-> "list", val |-> items]

IsContainer(node) == node.t \in {"dict", "list"}

\* d[key] = value
Put(f, key, value) ==
    [k \in (DOMAIN f) \cup {key} |-> IF k = key THEN value ELSE f[k]]

ExpKeySeq == << "housing", "food", "transportation", "education", "utilities",
                "communication", "leisure", "medical", "other" >>

SchoolTypeSeq == << "kindergarten", "elementary_school", "junior_high_school",
                    "high_school", "university" >>

\* The keys in the order in which get_initial_data, and the defaults of lines
\* 601-605, insert them: the iteration order of every dictionary
KeyOrder ==
    << "family", "income", "expenditure", "school_lump_sums", "insurance_policies",
       "other_lump_expenditures", "housing_loan",
       "members", "years_to_simulate", "initial_assets", "investment_return_rate",
       "inflation_rate", "income_growth_rate", "income_growth_step_years",
       "monthly_salary_main", "monthly_salary_sub", "bonus_annual",
       "monthly_salary_main_at_60", "monthly_salary_sub_at_60", "bonus_annual_at_60",
       "monthly_salary_main_at_65", "monthly_salary_sub_at_65", "bonus_annual_at_65" >>
    \o ExpKeySeq
    \o [i \in DOMAIN ExpKeySeq |-> ExpKeySeq[i] \o "_at_60"]
    \o [i \in DOMAIN ExpKeySeq |-> ExpKeySeq[i] \o "_at_65"]
    \o SchoolTypeSeq
    \o << "name", "initial_age", "monthly_premium", "maturity_year", "payout_amount",
          "amount", "start_age", "duration", "annual_cost", "year",
          "loan_amount", "loan_interest_rate", "loan_term_years", "start_year" >>

FloatKeys == {"investment_return_rate", "inflation_rate", "income_growth_rate",
              "loan_interest_rate"}

ScalarLeaf(key, value) ==
    IF key \in FloatKeys THEN FloatLeaf(value)
    ELSE IF key = "name" THEN StrLeaf(value)
    ELSE IntLeaf(value)

\* A dictionary of numbers and text
FlatDict(rec) == DictNode([k \in DOMAIN rec |-> ScalarLeaf(k, rec[k])])

ListOfDicts(items) == ListNode([i \in DOMAIN items |-> FlatDict(items[i])])

\* The dictionary of get_initial_data's layout that holds the values of a
\* configuration
PyData(config) ==
    DictNode(
      [k \in DOMAIN config |->
         IF k = "family"
           THEN DictNode([j \in DOMAIN config.family |->
                    IF j = "members" THEN ListOfDicts(config.family.members)
                    ELSE ScalarLeaf(j, config.family[j])])
         ELSE IF k = "school_lump_sums"
           THEN DictNode([j \in DOMAIN config.school_lump_sums |->
                    FlatDict(config.school_lump_sums[j])])
         ELSE IF k \in {"insurance_policies", "other_lump_expenditures"}
           THEN ListOfDicts(config[k])
         ELSE FlatDict(config[k])])

\* Lines 12-86
get_initial_data ==
    [family |->
        [members |-> << Member("A", 30), Member("B", 30) >>,
         years_to_simulate |-> 30,
         initial_assets |-> 500,
         investment_return_rate |-> Frac(3, 100),
         inflation_rate |-> Frac(1, 100),
         income_growth_rate |-> Frac(1, 100),
         income_growth_step_years |-> 10],
     income |->
        [monthly_salary_main |-> 30, monthly_salary_sub |-> 0, bonus_annual |-> 60,
         monthly_salary_main_at_60 |-> 0, monthly_salary_sub_at_60 |-> 0,
         bonus_annual_at_60 |-> 0,
         monthly_salary_main_at_65 |-> 0, monthly_salary_sub_at_65 |-> 0,
         bonus_annual_at_65 |-> 0],
     expenditure |->
        [k \in ExpAllKeys |->
            IF k = "housing" THEN 100 ELSE IF k = "food" THEN 60
            ELSE IF k = "transportation" THEN 20 ELSE IF k = "utilities" THEN 25
            ELSE IF k = "communication" THEN 10 ELSE IF k = "leisure" THEN 30
            ELSE IF k = "medical" THEN 10 ELSE IF k = "other" THEN 20
            ELSE 0],
     school_lump_sums |->
        [s \in SchoolTypes |->
            IF s = "kindergarten"
              THEN [amount |-> 50, start_age |-> 3, duration |-> 3, annual_cost |-> 30]
            ELSE IF s = "elementary_school"
              THEN [amount |-> 100, start_age |-> 6, duration |-> 6, annual_cost |-> 50]
            ELSE IF s = "junior_high_school"
              THEN [amount |-> 150, start_age |-> 12, duration |-> 3, annual_cost |-> 70]
            ELSE IF s = "high_school"
              THEN [amount |-> 200, start_age |-> 15, duration |-> 3, annual_cost |-> 80]
            ELSE [amount |-> 300, start_age |-> 18, duration |-> 4, annual_cost |-> 120]],
     insurance_policies |-> << >>,
     other_lump_expenditures |-> << >>,
     housing_loan |->
        [loan_amount |-> 0, loan_interest_rate |-> Frac(1, 100),
         loan_term_years |-> 35, start_year |-> 1]]

\* ------------------------------------------------------------------------
\* flatten_data_for_csv
\* ------------------------------------------------------------------------
\* str(i) of a list index i = 0, 1, 2, ... at position i + 1
DecimalIndex == << "0", "1", "2", "3" >>

Row(item, value) == [item |-> item, value |-> value]

KeysOf(f) == SelectSeq(KeyOrder, LAMBDA k : k \in DOMAIN f)

RECURSIVE flatten_data_for_csv(_, _)
RECURSIVE FlattenKeys(_, _, _)
RECURSIVE FlattenItems(_, _, _)

\* Lines 512-527; a path is kept as the sequence of its dot-separated parts
flatten_data_for_csv(data_dict, parent_key) ==
    FlattenKeys(data_dict.val, KeysOf(data_dict.val), parent_key)

\* Lines 514-526, for the keys that are left
FlattenKeys(f, keys, parent_key) ==
    IF keys = << >> THEN << >>
    ELSE LET key == Head(keys)
             value == f[key]
             new_key == parent_key \o << key >>
             flattened ==
                 IF value.t = "dict" THEN flatten_data_for_csv(value, new_key)
                 ELSE IF value.t = "list" THEN FlattenItems(value.val, 1, new_key)
                 ELSE << Row(new_key, value) >>
         IN  flattened \o FlattenKeys(f, Tail(keys), parent_key)

\* Lines 519-524, from the n-th item on
FlattenItems(items, n, new_key) ==
    IF n > Len(items) THEN << >>
    ELSE LET item == items[n]
             item_key == new_key \o << DecimalIndex[n] >>
             flattened == IF item.t = "dict" THEN flatten_data_for_csv(item, item_key)
                          ELSE << Row(item_key, item) >>
         IN  flattened \o FlattenItems(items, n + 1, new_key)

\* pd.DataFrame(rows), line 1013: a value column that holds numbers only is a
\* float column, so its integers arrive as floats
DataFrame(rows) ==
    IF \A i \in DOMAIN rows : rows[i].value.t \in {"int", "float"}
      THEN [i \in DOMAIN rows |->
               IF rows[i].value.t = "int"
                 THEN Row(rows[i].item, FloatLeaf(Q(rows[i].value.i)))
                 ELSE rows[i]]
      ELSE rows

\* ------------------------------------------------------------------------
\* unflatten_data_from_csv
\* ------------------------------------------------------------------------
NanLeaf == [t |-> "nan", i |-> 0, q |-> Q(0), s |-> ""]

\* Lines 425-497
TYPE_MAP(path) ==
    IF Len(path) = 2 /\ path[1] = "family"
         /\ path[2] \in {"years_to_simulate", "initial_assets", "income_growth_step_years"}
      THEN "int"
    ELSE IF Len(path) = 2 /\ path[1] = "family"
         /\ path[2] \in {"investment_return_rate", "inflation_rate", "income_growth_rate"}
      THEN "float"
    ELSE IF Len(path) = 2 /\ path[1] = "income" /\ path[2] \in DOMAIN BaseData.income
      THEN "int"
    ELSE IF Len(path) = 2 /\ path[1] = "expenditure" /\ path[2] \in ExpAllKeys
      THEN "int"
    ELSE IF Len(path) = 3 /\ path[1] = "school_lump_sums" /\ path[2] \in SchoolTypes
         /\ path[3] \in {"amount", "start_age", "duration", "annual_cost"}
      THEN "int"
    ELSE IF Len(path) = 2 /\ path[1] = "housing_loan"
         /\ path[2] \in {"loan_amount", "loan_term_years", "start_year"}
      THEN "int"
    ELSE IF path = << "housing_loan", "loan_interest_rate" >>
      THEN "float"
    ELSE "none"

\* Lines 500-509
DYNAMIC_LIST_ITEM_TYPE_MAP(key) ==
    IF key = "name" THEN "str"
    ELSE IF key \in {"initial_age", "monthly_premium", "maturity_year", "payout_amount",
                     "start_year", "amount", "year"}
      THEN "int"
    ELSE "none"

\* Lines 551-557
TargetType(path) ==
    IF TYPE_MAP(path) # "none" THEN TYPE_MAP(path)
    ELSE DYNAMIC_LIST_ITEM_TYPE_MAP(path[Len(path)])

\* Text that int() and float() accept, among the text of the inputs
IsNumberText(s) == \E n \in DOMAIN DecimalIndex : DecimalIndex[n] = s

NumberOfText(s) == (CHOOSE n \in DOMAIN DecimalIndex : DecimalIndex[n] = s) - 1

\* Lines 560-580: the value that is stored for a row (the text str() makes
\* of a number outside DecimalIndex is not told apart: "number")
ConvertValue(value, target_type) ==
    IF target_type = "int"
      THEN IF value.t = "int" THEN value
           ELSE IF value.t = "float" THEN IntLeaf(Trunc(value.q))
           ELSE IF value.t = "str" /\ IsNumberText(value.s)
             THEN IntLeaf(NumberOfText(value.s))
           ELSE IntLeaf(0)
    ELSE IF target_type = "float"
      THEN IF value.t = "float" THEN value
           ELSE IF value.t = "int" THEN FloatLeaf(Q(value.i))
           ELSE IF value.t = "str" /\ IsNumberText(value.s)
             THEN FloatLeaf(Q(NumberOfText(value.s)))
           ELSE FloatLeaf(Q(0))
    ELSE IF target_type = "str"
      THEN IF value.t = "nan" THEN FloatLeaf(Q(0))
           ELSE IF value.t = "str" THEN value
           ELSE IF value.t = "int" /\ value.i \in 0 .. (Len(DecimalIndex) - 1)
             THEN StrLeaf(DecimalIndex[value.i + 1])
           ELSE StrLeaf("number")
    ELSE IF value.t = "nan" THEN StrLeaf("")
         ELSE IF value.t = "str" /\ IsNumberText(value.s)
           THEN IntLeaf(NumberOfText(value.s))
         ELSE value

\* key_part.isdigit() and int(key_part), lines 590-591
IsDigit(key_part) == IsNumberText(key_part)

\* Lines 600-607
DefaultListItem(parent_key_for_list) ==
    IF parent_key_for_list = "members"
      THEN FlatDict([name |-> "", initial_age |-> 0])
    ELSE IF parent_key_for_list = "insurance_policies"
      THEN FlatDict([name |-> "", monthly_premium |-> 0, maturity_year |-> 0,
                     payout_amount |-> 0, start_year |-> 1])
    ELSE IF parent_key_for_list = "other_lump_expenditures"
      THEN FlatDict([name |-> "", amount |-> 0, year |-> 0])
    ELSE DictNode(<< >>)

\* Lines 598-607
RECURSIVE ExtendList(_, _, _)
ExtendList(items, idx, item) ==
    IF Len(items) > idx THEN items ELSE ExtendList(Append(items, item), idx, item)

Walked(status, node) == [status |-> status, node |-> node]

\* Lines 546-618 from part i of the path on: the object current_level after
\* the assignments made in place, and how the walk ended ("ok", "fallback"
\* for the return of line 595, "raised" for a text key used on a list)
RECURSIVE AssignPath(_, _, _, _)
AssignPath(current_level, path_parts, i, processed_value) ==
    LET key_part == path_parts[i]
    IN  IF i = Len(path_parts)
          THEN IF current_level.t = "dict"
                 THEN Walked("ok", DictNode(Put(current_level.val, key_part, processed_value)))
                 ELSE Walked("ok", current_level)
        ELSE IF IsDigit(key_part)
          THEN IF current_level.t # "list"
                 THEN Walked("fallback", current_level)
                 ELSE LET idx == NumberOfText(key_part)
                          parent_key_for_list == IF i > 1 THEN path_parts[i - 1] ELSE ""
                          items == ExtendList(current_level.val, idx,
                                              DefaultListItem(parent_key_for_list))
                          below == AssignPath(items[idx + 1], path_parts, i + 1,
                                              processed_value)
                      IN  Walked(below.status,
                                 ListNode([items EXCEPT ![idx + 1] = below.node]))
        ELSE IF current_level.t # "dict"
          THEN Walked("raised", current_level)
        ELSE LET next_is_list == IsDigit(path_parts[i + 1])
                 present == /\ key_part \in DOMAIN current_level.val
                            /\ IsContainer(current_level.val[key_part])
                 next_level == IF present THEN current_level.val[key_part]
                               ELSE IF next_is_list THEN ListNode(<< >>)
                               ELSE DictNode(<< >>)
                 below == AssignPath(next_level, path_parts, i + 1, processed_value)
             IN  Walked(below.status,
                        DictNode(Put(current_level.val, key_part, below.node)))

\* ------------------------------------------------------------------------
\* Download and upload of the configuration
\* ------------------------------------------------------------------------
Policy1 == Policy("life", 10, 20, 1000, 1)
Policy2 == Policy("school", 5, 15, 300, 3)

\* Well-formed configurations: the layout of get_initial_data with zero to
\* three members, zero to two policies, zero or one one-off expense
CsvConfigs ==
    LET edited == [get_initial_data EXCEPT
                       !.family.years_to_simulate = 5,
                       !.family.initial_assets = 0,
                       !.family.investment_return_rate = Frac(1, 2),
                       !.income.monthly_salary_main = 40,
                       !.expenditure.housing_at_60 = 80,
                       !.school_lump_sums.university.amount = 250,
                       !.housing_loan.loan_amount = 3000]
    IN  { [base EXCEPT !.family.members = members,
                       !.insurance_policies = policies,
                       !.other_lump_expenditures = lumps] :
            base \in {get_initial_data, edited},
            members \in { << >>,
                          << Member("C", 5) >>,
                          << Member("B", 30), Member("", 0) >>,
                          << Member("A", 40), Member("B", 38), Member("C", 5) >> },
            policies \in { << >>, << Policy1 >>, << Policy2, Policy1 >> },
            lumps \in { << >>, << Lump("car", 200, 3) >> } }

\* Rows a user may add to a downloaded file: a list index below a
\* dictionary, and a text key below a list
AddedRows ==
    { Row(<< "family", "0", "name" >>, StrLeaf("X")),
      Row(<< "income", "1", "bonus_annual" >>, IntLeaf(7)),
      Row(<< "family", "members", "name", "first" >>, StrLeaf("X")) }

\* Number of rows of the file that come before the added one
AddedRowPositions == {0, 9, 200}

InsertRow(rows, position, row) ==
    LET p == IF position > Len(rows) THEN Len(rows) ELSE position
    IN  SubSeq(rows, 1, p) \o << row >> \o SubSeq(rows, p + 1, Len(rows))

\* Lines 1013-1020: the current configuration is offered as a file
Download ==
    /\ csv_pc = "none"
    /\ df_uploaded' = DataFrame(flatten_data_for_csv(PyData(data), << >>))
    /\ csv_pc' = "file"
    /\ UNCHANGED << file_edit, row_index, new_data, initial_data_structure, aliased,
                    uploaded_data >>
    /\ UNCHANGED << pc, data, simvars, mainvars >>

\* The user adds a row to the file before uploading it
EditFile(row, position) ==
    /\ csv_pc = "file"
    /\ ~file_edit.edited
    /\ file_edit' = [edited |-> TRUE, position |-> position, row |-> row]
    /\ df_uploaded' = InsertRow(df_uploaded, position, row)
    /\ UNCHANGED << csv_pc, row_index, new_data, initial_data_structure, aliased,
                    uploaded_data >>
    /\ UNCHANGED << pc, data, simvars, mainvars >>

\* Variant: the default members stay in the list
ClearMembers_Kept(family) == family

\* Line 535
ClearMembers(family) == DictNode(Put(family.val, "members", ListNode(<< >>)))

\* Lines 668 and 531-537: the call with a fresh get_initial_data(); the copy
\* of line 531 is shallow, so line 535 empties the members list of the one
\* family dictionary both structures hold, and lines 536-537 rebind two keys
\* of new_data only
UnflattenStart ==
    /\ csv_pc = "file"
    /\ LET fresh == PyData(get_initial_data).val
           shared == Put(fresh, "family", ClearMembers(fresh["family"]))
       IN  /\ initial_data_structure' = shared
           /\ new_data' = Put(Put(shared, "insurance_policies", ListNode(<< >>)),
                              "other_lump_expenditures", ListNode(<< >>))
           /\ aliased' = (DOMAIN fresh) \ {"insurance_policies", "other_lump_expenditures"}
    /\ row_index' = 0
    /\ csv_pc' = "rows"
    /\ UNCHANGED << df_uploaded, file_edit, uploaded_data >>
    /\ UNCHANGED << pc, data, simvars, mainvars >>

\* Lines 539-618 for one row of the file; a dictionary reached through a
\* shared top-level value is changed in both structures
UnflattenRow ==
    /\ csv_pc = "rows"
    /\ row_index < Len(df_uploaded)
    /\ LET row == df_uploaded[row_index + 1]
           path_parts == row.item
           first == path_parts[1]
           processed_value == ConvertValue(row.value, TargetType(path_parts))
           walk == AssignPath(DictNode(new_data), path_parts, 1, processed_value)
           rebinds == \/ Len(path_parts) = 1
                      \/ first \notin DOMAIN new_data
                      \/ ~IsContainer(new_data[first])
           written == first \in DOMAIN walk.node.val
           initial_after ==
               IF ~rebinds /\ written /\ first \in aliased
                 THEN Put(initial_data_structure, first, walk.node.val[first])
                 ELSE initial_data_structure
       IN  /\ new_data' = walk.node.val
           /\ initial_data_structure' = initial_after
           /\ aliased' = IF rebinds /\ written THEN aliased \ {first} ELSE aliased
           /\ row_index' = row_index + 1
           /\ csv_pc' = IF walk.status = "ok" THEN "rows"
                        ELSE IF walk.status = "fallback" THEN "returned"
                        ELSE "raised"
           /\ uploaded_data' =
                  IF walk.status = "fallback"
                    THEN [status |-> "fallback", value |-> DictNode(initial_after)]
                    ELSE uploaded_data
    /\ UNCHANGED << df_uploaded, file_edit >>
    /\ UNCHANGED << pc, data, simvars, mainvars >>

\* Line 619, and line 668 of the caller
UnflattenReturn ==
    /\ csv_pc = "rows"
    /\ row_index = Len(df_uploaded)
    /\ uploaded_data' = [status |-> "ok", value |-> DictNode(new_data)]
    /\ csv_pc' = "returned"
    /\ UNCHANGED << df_uploaded, file_edit, row_index, new_data,
                    initial_data_structure, aliased >>
    /\ UNCHANGED << pc, data, simvars, mainvars >>

InitCsv ==
    /\ pc = "idle"
    /\ data \in CsvConfigs
    /\ SessionStart
    /\ NoUpload
    /\ LocalsUnset

NextCsv ==
    \/ Download
    \/ \E row \in AddedRows, position \in AddedRowPositions : EditFile(row, position)
    \/ UnflattenStart
    \/ UnflattenRow
    \/ UnflattenReturn

SpecCsv == InitCsv /\ [][NextCsv]_vars

\* ------------------------------------------------------------------------
\* Properties
\* ------------------------------------------------------------------------
Years == data.family.years_to_simulate

Returned == pc = "done"

InitialAssetsYen == Q(data.family.initial_assets * ManToYen)

\* C1: for a horizon N >= 1 the returned table has exactly N rows and the
\* year of the i-th row is i (1, 2, ..., N: no gap, no repeat).
C1_RecordsCoverHorizon ==
    (Returned /\ Years >= 1) =>
        /\ Len(results) = Years
        /\ \A i \in 1 .. Years : results[i].year = i

C1_Witness ==
    /\ Returned
    /\ Years >= 2
    /\ Len(results) = Years
    /\ results[Years].year = Years

\* C2: in every row the recorded balance is the recorded income minus the
\* recorded expense, the three integers as they stand in the row.
C2_RecordedBalanceExact ==
    \A i \in DOMAIN results :
        results[i].annual_balance =
            results[i].annual_income - results[i].annual_expenditure

Loan == data.housing_loan

\* start_year <= y <= start_year + loan_term_years - 1, with a principal
InLoanWindow(y) ==
    /\ Loan.loan_amount > 0
    /\ Loan.start_year <= y
    /\ y <= Loan.start_year + Loan.loan_term_years - 1

\* C4: the loan payment of year Y is 12 times the monthly payment exactly
\* when the principal is positive and start_year <= Y <= start_year + term - 1,
\* and zero in every other year; the zero-rate loan of 12,000,000 over 10
\* years from year 1 is charged 1,200,000 in years 1..10 and 0 in year 11.
C4_LoanPaymentWindow ==
    \A i \in DOMAIN steps :
        LET y == steps[i].year
            due == RMul(Q(MonthsPerYear), monthly_loan_payment_yen)
        IN  /\ InLoanWindow(y) => (steps[i].loan_payment = due /\ due.n > 0)
            /\ ~InLoanWindow(y) => steps[i].loan_payment = Q(0)
            /\ results[i].housing_loan_payment = Trunc(steps[i].loan_payment)
            /\ data = ScenarioLoan =>
                   results[i].housing_loan_payment = IF y <= 10 THEN 1200000 ELSE 0

\* a charged year followed by a year after the last payment
C4_Witness ==
    \E i, j \in DOMAIN steps :
        /\ i < j
        /\ steps[i].loan_payment.n > 0
        /\ Loan.start_year <= steps[j].year
        /\ steps[j].loan_payment = Q(0)

\* C5: the monthly payment is 0 when the principal or the term is not
\* positive, whatever the rate; with a positive principal and term and a zero
\* rate it is principal / (term * 12), returned before the annuity formula
\* is evaluated and without a division by zero.
C5_LoanPaymentGuards ==
    pc # "call" =>
        LET res == calculate_monthly_loan_payment(Loan.loan_amount,
                       Loan.loan_interest_rate, Loan.loan_term_years)
        IN  /\ monthly_loan_payment_yen = res.value
            /\ (Loan.loan_amount <= 0 \/ Loan.loan_term_years <= 0)
                   => res = LoanResult(FALSE, FALSE, Q(0))
            /\ (Loan.loan_amount > 0 /\ Loan.loan_term_years > 0
                    /\ RIsZero(Loan.loan_interest_rate))
                   => /\ ~res.raised
                      /\ ~res.formula
                      /\ pc # "error"
                      /\ RMul(res.value, Q(Loan.loan_term_years * MonthsPerYear))
                             = Q(Loan.loan_amount * ManToYen)

C5_Witness ==
    /\ pc = "loop"
    /\ Loan.loan_amount > 0
    /\ Loan.loan_term_years > 0
    /\ RIsZero(Loan.loan_interest_rate)
    /\ monthly_loan_payment_yen.n > 0
    /\ monthly_loan_payment_yen.d > 1

\* C6: the housing line is left out of the recurring total exactly in the
\* years in which the loan payment is charged; in every other year its
\* current value, base or age override, is part of the total.
C6_HousingLineVsLoan ==
    \A i \in DOMAIN steps :
        LET y == steps[i].year
            all == SumOver(ExpKeys, steps[i].exp_final)
        IN  /\ steps[i].housing_skipped <=> InLoanWindow(y)
            /\ steps[i].housing_skipped <=> steps[i].loan_charged
            /\ steps[i].base_monthly =
                   IF InLoanWindow(y) THEN all - steps[i].exp_final["housing"]
                                      ELSE all

\* the loan covers the housing line in a year after the age-60 housing value
\* was put in place, and the line is back in a later year
C6_Witness ==
    \E i, j \in DOMAIN steps :
        /\ i < j
        /\ steps[i].fired60
        /\ data.expenditure["housing_at_60"] > 0
        /\ steps[i].exp_final["housing"] = data.expenditure["housing_at_60"]
        /\ steps[i].housing_skipped
        /\ ~steps[j].housing_skipped
        /\ steps[j].base_monthly = SumOver(ExpKeys, steps[j].exp_final)

ConfiguredIncome ==
    << Q(data.income.monthly_salary_main * ManToYen),
       Q(data.income.monthly_salary_sub * ManToYen),
       Q(data.income.bonus_annual * ManToYen) >>

IncomeAt60 ==
    << data.income.monthly_salary_main_at_60,
       data.income.monthly_salary_sub_at_60,
       data.income.bonus_annual_at_60 >>

IncomeAt65 ==
    << data.income.monthly_salary_main_at_65,
       data.income.monthly_salary_sub_at_65,
       data.income.bonus_annual_at_65 >>

GrowthFactor == RAdd(Q(1), data.family.income_growth_rate)

\* C7: the three income components are multiplied by 1 + income_growth_rate
\* in year y exactly when y > 1, (y - 1) mod income_growth_step_years = 0 and
\* no age override fired in an earlier year; never in year 1.
C7_GrowthYears ==
    \A i \in DOMAIN steps :
        LET y == steps[i].year
            earlier == \E j \in 1 .. (i - 1) : steps[j].fired60 \/ steps[j].fired65
            due == /\ y > 1
                   /\ PyMod(y - 1, data.family.income_growth_step_years) = 0
                   /\ ~earlier
            start == IF i = 1 THEN ConfiguredIncome ELSE steps[i - 1].inc_final
        IN  /\ steps[i].grew <=> due
            /\ y = 1 => ~steps[i].grew
            /\ steps[i].inc_start = start
            /\ \A c \in 1 .. 3 :
                   steps[i].inc_grown[c] =
                       IF due THEN RMul(start[c], GrowthFactor) ELSE start[c]

\* growth every second year: year 2 is skipped, year 3 grows
C7_Witness ==
    /\ Len(steps) >= 3
    /\ data.family.income_growth_step_years = 2
    /\ ~RIsZero(data.family.income_growth_rate)
    /\ ~steps[2].grew
    /\ steps[3].grew
    /\ steps[3].inc_grown[1] # steps[3].inc_start[1]

\* C8: in every year after the one in which the age-60 override fired, no
\* income component grows and each one keeps last year's value, unless the
\* age-65 override replaces it by a non-zero value.
C8_NoGrowthAfter60 ==
    \A j, i \in DOMAIN steps :
        (steps[j].fired60 /\ j < i) =>
            /\ ~steps[i].grew
            /\ \A c \in 1 .. 3 :
                   steps[i].inc_final[c] =
                       IF steps[i].fired65 /\ IncomeAt65[c] # 0
                         THEN Q(IncomeAt65[c] * ManToYen)
                         ELSE steps[i - 1].inc_final[c]

\* a later year in which growth would have been due, with a component whose
\* age-60 value is zero
C8_Witness ==
    \E j, i \in DOMAIN steps :
        /\ steps[j].fired60
        /\ j < i
        /\ ~steps[i].fired65
        /\ ~RIsZero(data.family.income_growth_rate)
        /\ PyMod(steps[i].year - 1, data.family.income_growth_step_years) = 0
        /\ IncomeAt60[2] = 0
        /\ steps[i].inc_final[2].n > 0

FirstEntryAge(y) == data.family.members[1].initial_age + (y - 1)

\* C9: in the first year in which the age of the first household entry is
\* >= 60, every income component and expense category with a non-zero age-60
\* value takes that value, the others keep theirs, and the flag is set; in
\* the years before, no age-60 value is used.
C9_Age60AtReferenceAge ==
    data.family.members # << >> =>
        \A i \in DOMAIN steps :
            LET y == steps[i].year
                first == FirstEntryAge(y) >= Age60 /\ (y = 1 \/ FirstEntryAge(y - 1) < Age60)
            IN  /\ first =>
                      /\ steps[i].fired60
                      /\ \A c \in 1 .. 3 :
                             steps[i].inc_after60[c] =
                                 IF IncomeAt60[c] # 0 THEN Q(IncomeAt60[c] * ManToYen)
                                                     ELSE steps[i].inc_grown[c]
                      /\ \A k \in ExpKeys :
                             steps[i].exp_after60[k] =
                                 IF data.expenditure[k \o "_at_60"] # 0
                                   THEN data.expenditure[k \o "_at_60"]
                                   ELSE steps[i].exp_start[k]
                /\ FirstEntryAge(y) < Age60 =>
                      /\ ~steps[i].fired60
                      /\ steps[i].inc_after60 = steps[i].inc_grown
                      /\ steps[i].exp_after60 = steps[i].exp_start

\* C10: when the age-65 override fires, a field with a non-zero age-65 value
\* takes it whatever the age-60 step left, a field with a zero age-65 value
\* keeps what the age-60 step left; when both fire in one year the age-60
\* step comes first.
C10_Age65Override ==
    \A i \in DOMAIN steps :
        /\ steps[i].fired65 =>
              /\ \A c \in 1 .. 3 :
                     steps[i].inc_final[c] =
                         IF IncomeAt65[c] # 0 THEN Q(IncomeAt65[c] * ManToYen)
                                             ELSE steps[i].inc_after60[c]
              /\ \A k \in ExpKeys :
                     steps[i].exp_final[k] =
                         IF data.expenditure[k \o "_at_65"] # 0
                           THEN data.expenditure[k \o "_at_65"]
                           ELSE steps[i].exp_after60[k]
        /\ (steps[i].fired60 /\ steps[i].fired65) =>
              /\ \A c \in 1 .. 3 :
                     steps[i].inc_after60[c] =
                         IF IncomeAt60[c] # 0 THEN Q(IncomeAt60[c] * ManToYen)
                                             ELSE steps[i].inc_grown[c]
              /\ \A k \in ExpKeys :
                     steps[i].exp_after60[k] =
                         IF data.expenditure[k \o "_at_60"] # 0
                           THEN data.expenditure[k \o "_at_60"]
                           ELSE steps[i].exp_start[k]
        /\ (i = 1 /\ steps[i].has_members /\ steps[i].ref_age >= Age65) =>
              (steps[i].fired60 /\ steps[i].fired65)

\* both thresholds in year 1: a field with both values set, a field with
\* only the age-60 value set, a category with only the age-65 value set
C10_Witness ==
    /\ Len(steps) >= 1
    /\ steps[1].fired60 /\ steps[1].fired65
    /\ IncomeAt60[1] > 0 /\ IncomeAt65[1] > 0
    /\ steps[1].inc_final[1] = Q(IncomeAt65[1] * ManToYen)
    /\ IncomeAt60[3] > 0 /\ IncomeAt65[3] = 0
    /\ steps[1].inc_final[3] = Q(IncomeAt60[3] * ManToYen)
    /\ data.expenditure["housing_at_60"] > 0
    /\ steps[1].exp_final["housing"] = data.expenditure["housing_at_60"]
    /\ data.expenditure["food_at_65"] > 0
    /\ steps[1].exp_final["food"] = data.expenditure["food_at_65"]

Fired60(i) == steps[i].fired60

Fired65(i) == steps[i].fired65

\* C11: both one-shot flags start false, are never reset once true, and the
\* assignments each one guards run in at most one year of a run.
C11_FlagsMonotonic ==
    /\ (pc \in {"loop", "done"} /\ steps = << >>) =>
           (~income_exp_changed_at_60 /\ ~income_exp_changed_at_65)
    /\ pc # "call" =>
           /\ income_exp_changed_at_60 <=> \E j \in DOMAIN steps : Fired60(j)
           /\ income_exp_changed_at_65 <=> \E j \in DOMAIN steps : Fired65(j)
    /\ \A i \in DOMAIN steps :
           /\ steps[i].c60_before <=> \E j \in 1 .. (i - 1) : Fired60(j)
           /\ steps[i].c65_before <=> \E j \in 1 .. (i - 1) : Fired65(j)
    /\ \A i, j \in DOMAIN steps :
           i < j => (~(Fired60(i) /\ Fired60(j)) /\ ~(Fired65(i) /\ Fired65(j)))

\* the age-60 block ran in one year, the age-65 block in a later one, with the
\* reference age still >= 60
C11_Witness ==
    \E i, j \in DOMAIN steps :
        /\ i < j
        /\ Fired60(i) /\ ~Fired65(i)
        /\ Fired65(j) /\ ~Fired60(j)
        /\ steps[j].ref_age >= Age60
        /\ income_exp_changed_at_60 /\ income_exp_changed_at_65

\* C12: in every year the age compared with 60 and 65 is the age of the
\* first entry of the household list, its initial_age + (year - 1).
C12_ReferenceAgeIsFirstEntry ==
    \A i \in DOMAIN steps :
        steps[i].has_members => steps[i].ref_age = FirstEntryAge(steps[i].year)

\* C13: the row of year y reports, for every entry of the household list,
\* the age initial_age + (y - 1).
C13_RowAges ==
    \A i \in DOMAIN results :
        \A k \in DOMAIN data.family.members :
            LET m == data.family.members[k]
            IN  /\ m.name \in DOMAIN results[i].ages
                /\ results[i].ages[m.name] = m.initial_age + (results[i].year - 1)

Policies == data.insurance_policies

PremiumsOf(S) ==
    SumOver(S, [i \in S |-> Policies[i].monthly_premium * MonthsPerYear])

PayoutsOf(S) ==
    SumOver(S, [i \in S |-> Policies[i].payout_amount * ManToYen])

\* C14: a policy with start_year 0 is charged no premium in any year, and a
\* policy with maturity_year 0 pays out in no year.
C14_ZeroDisables ==
    \A i \in DOMAIN results :
        /\ results[i].insurance_premium
               <= PremiumsOf({k \in DOMAIN Policies : Policies[k].start_year # 0})
        /\ results[i].insurance_payout
               <= PayoutsOf({k \in DOMAIN Policies : Policies[k].maturity_year # 0})

\* C15: the premium of year y is the sum of monthly_premium * 12 over the
\* policies with start_year <= y, not inflated, also after the maturity year.
C15_PremiumsFromStartYear ==
    \A i \in DOMAIN results :
        LET y == results[i].year
            charged == {k \in DOMAIN Policies : Policies[k].start_year <= y}
        IN  /\ results[i].insurance_premium = PremiumsOf(charged)
            /\ RSub(steps[i].expense,
                    RAdd(steps[i].inflated_base, steps[i].loan_payment))
                 = Q(PremiumsOf(charged) + results[i].school_lump_sum
                     + results[i].school_enrollment_cost
                     + results[i].other_lump_expenditure)

\* a policy charged in a year after its maturity year, under inflation
C15_Witness ==
    \E i \in DOMAIN results :
        \E k \in DOMAIN Policies :
            /\ Policies[k].maturity_year > 0
            /\ Policies[k].maturity_year < results[i].year
            /\ Policies[k].start_year > 0
            /\ Policies[k].start_year <= results[i].year
            /\ ~RIsZero(data.family.inflation_rate)
            /\ results[i].insurance_premium >= Policies[k].monthly_premium * MonthsPerYear
            /\ results[i].insurance_premium > 0

\* C16: the income of year y is (main + sub) * 12 + bonus + payouts(y) with
\* the salary and bonus values left by this year's growth and override steps
\* and payouts(y) the payout_amount of the policies with maturity_year = y;
\* over a whole run a policy pays out once if its maturity year lies in
\* 1..years_to_simulate and never otherwise.
C16_AnnualIncome ==
    /\ \A i \in DOMAIN results :
           LET y == results[i].year
               pay == PayoutsOf({k \in DOMAIN Policies : Policies[k].maturity_year = y})
               f == steps[i].inc_final
               income == RAdd(RAdd(RMul(RAdd(f[1], f[2]), Q(MonthsPerYear)), f[3]),
                              Q(pay))
           IN  /\ results[i].insurance_payout = pay
               /\ steps[i].income = income
               /\ results[i].annual_income = Trunc(income)
    /\ Returned =>
           SumOver(DOMAIN results, [i \in DOMAIN results |-> results[i].insurance_payout])
             = PayoutsOf({k \in DOMAIN Policies :
                             /\ Policies[k].maturity_year >= 1
                             /\ Policies[k].maturity_year <= Years})

\* a run with a payout in year 2 and none in years 1 and 3
C16_Witness ==
    /\ Returned
    /\ Len(results) >= 3
    /\ results[1].insurance_payout = 0
    /\ results[2].insurance_payout > 0
    /\ results[3].insurance_payout = 0
    /\ results[2].annual_income = results[1].annual_income + results[2].insurance_payout

Members == data.family.members

Stage(s) == data.school_lump_sums[s]

\* age of the k-th household entry in year y
EntryAge(k, y) == Members[k].initial_age + (y - 1)

EntryStages == (DOMAIN Members) \X SchoolTypes

\* C17: per household entry and school stage, annual_cost is charged in the
\* years in which the entry's age lies in start_age .. start_age + duration - 1
\* and the lump sum in the year in which its age equals start_age; the row
\* carries the sums over all entries and stages, entries of the same age all
\* add up, and a stage with start_age 0 charges nothing.
C17_SchoolCosts ==
    \A i \in DOMAIN results :
        LET y == results[i].year
            lump == SumOver(EntryStages,
                        [p \in EntryStages |->
                            IF /\ Stage(p[2]).start_age # 0
                               /\ EntryAge(p[1], y) = Stage(p[2]).start_age
                              THEN Stage(p[2]).amount * ManToYen ELSE 0])
            enrol == SumOver(EntryStages,
                        [p \in EntryStages |->
                            IF /\ Stage(p[2]).start_age # 0
                               /\ EntryAge(p[1], y) >= Stage(p[2]).start_age
                               /\ EntryAge(p[1], y)
                                    <= Stage(p[2]).start_age + Stage(p[2]).duration - 1
                              THEN Stage(p[2]).annual_cost * ManToYen ELSE 0])
        IN  /\ results[i].school_lump_sum = lump
            /\ results[i].school_enrollment_cost = enrol

Lumps == data.other_lump_expenditures

OneOffOf(S) == SumOver(S, [k \in S |-> Lumps[k].amount * ManToYen])

\* C18: the expense of year y is the inflated recurring total plus the
\* premiums, the loan payment, the school lump sums, the school enrolment costs
\* and the one-off expenses of that year, the one-off part being the sum of the
\* entries whose year equals y; an entry with year 0 or beyond the horizon is
\* charged in no year.
C18_AnnualExpense ==
    /\ \A i \in DOMAIN results :
           LET y == results[i].year
               oneoff == OneOffOf({k \in DOMAIN Lumps : Lumps[k].year = y})
               expense ==
                   RAdd(RAdd(steps[i].inflated_base, steps[i].loan_payment),
                        Q(results[i].insurance_premium + results[i].school_lump_sum
                          + results[i].school_enrollment_cost + oneoff))
           IN  /\ results[i].other_lump_expenditure = oneoff
               /\ steps[i].expense = expense
               /\ results[i].annual_expenditure = Trunc(expense)
    /\ Returned =>
           SumOver(DOMAIN results,
                   [i \in DOMAIN results |-> results[i].other_lump_expenditure])
             = OneOffOf({k \in DOMAIN Lumps :
                            Lumps[k].year >= 1 /\ Lumps[k].year <= Years})

\* a year with a recurring total, a premium, a loan payment and a one-off
\* expense, in a run whose list also holds an entry beyond the horizon
C18_Witness ==
    /\ Returned
    /\ \E k \in DOMAIN Lumps : Lumps[k].year > Years /\ Lumps[k].amount > 0
    /\ \E i \in DOMAIN results :
           /\ results[i].other_lump_expenditure > 0
           /\ results[i].insurance_premium > 0
           /\ steps[i].loan_payment.n > 0
           /\ steps[i].inflated_base.n > 0

\* C19: the recurring total of year y is the sum of the current monthly
\* category amounts (housing left out while the loan is being repaid) times 12
\* times (1 + inflation_rate)^(y - 1), the exponent being y - 1 also after an
\* age-60 or age-65 override; premiums, loan payment, school costs and one-off
\* expenses enter the expense without an inflation factor.
C19_RecurringInflation ==
    \A i \in DOMAIN results :
        LET y == results[i].year
            all == SumOver(ExpKeys, steps[i].exp_final)
            monthly == IF InLoanWindow(y) THEN all - steps[i].exp_final["housing"]
                       ELSE all
            factor == RPow(RAdd(Q(1), data.family.inflation_rate), y - 1)
            plain == PremiumsOf({k \in DOMAIN Policies : Policies[k].start_year <= y})
                     + results[i].school_lump_sum + results[i].school_enrollment_cost
                     + OneOffOf({k \in DOMAIN Lumps : Lumps[k].year = y})
            loan == IF InLoanWindow(y)
                      THEN RMul(monthly_loan_payment_yen, Q(MonthsPerYear))
                    ELSE Q(0)
        IN  /\ steps[i].inflated_base =
                   RMul(Q(monthly * ThousandToYen * MonthsPerYear), factor)
            /\ RSub(steps[i].expense, steps[i].inflated_base) = RAdd(Q(plain), loan)

\* a year after the age-60 override replaced the food amount, under inflation
C19_Witness ==
    \E i \in DOMAIN steps :
        /\ steps[i].c60_before
        /\ steps[i].year >= 3
        /\ ~RIsZero(data.family.inflation_rate)
        /\ data.expenditure["food_at_60"] > 0
        /\ data.expenditure["food_at_60"] # data.expenditure["food"]
        /\ steps[i].exp_final["food"] = data.expenditure["food_at_60"]
        /\ steps[i].inflated_base
             # Q(steps[i].base_monthly * ThousandToYen * MonthsPerYear)

InvalidConfiguration ==
    \/ Years < 0
    \/ data.family.inflation_rate.n < 0
    \/ data.family.investment_return_rate.n < 0
    \/ data.family.income_growth_rate.n < 0
    \/ Loan.loan_interest_rate.n < 0
    \/ data.family.income_growth_step_years < 1

\* C20: a configuration with a negative horizon, a negative rate or a growth
\* step below 1 ends in an error and yields no row; any other configuration
\* ends with the complete table; no run ends with an empty or shortened table
\* in place of the error.
C20_InvalidRejected ==
    /\ InvalidConfiguration => (pc # "done" /\ results = << >>)
    /\ ~InvalidConfiguration =>
           /\ pc # "error"
           /\ Returned => Len(results) = Years

\* C23: with an empty household list and an otherwise valid configuration no
\* error is raised and years_to_simulate rows are returned; neither flag is
\* ever set, no age-60 or age-65 value is applied, no school cost is charged,
\* and the income grows in every growth-step year up to the end of the run.
C23_EmptyHousehold ==
    (Members = << >> /\ ~InvalidConfiguration) =>
        /\ pc # "error"
        /\ Returned => Len(results) = Years
        /\ pc # "call" => (~income_exp_changed_at_60 /\ ~income_exp_changed_at_65)
        /\ \A i \in DOMAIN steps :
               LET y == steps[i].year
                   due == y > 1 /\ PyMod(y - 1, data.family.income_growth_step_years) = 0
                   start == IF i = 1 THEN ConfiguredIncome ELSE steps[i - 1].inc_final
               IN  /\ ~Fired60(i) /\ ~Fired65(i)
                   /\ steps[i].grew <=> due
                   /\ \A c \in 1 .. 3 :
                          steps[i].inc_final[c] =
                              IF due THEN RMul(start[c], GrowthFactor) ELSE start[c]
                   /\ \A k \in ExpKeys : steps[i].exp_final[k] = data.expenditure[k]
                   /\ results[i].school_lump_sum = 0
                   /\ results[i].school_enrollment_cost = 0

\* an empty household whose income grew in years 2 and 3 although age-60 and
\* age-65 values are configured
C23_Witness ==
    /\ Members = << >>
    /\ Returned
    /\ Len(steps) >= 3
    /\ steps[2].grew /\ steps[3].grew
    /\ ~RIsZero(data.family.income_growth_rate)
    /\ IncomeAt60[1] > 0 /\ IncomeAt65[1] > 0
    /\ data.expenditure["housing_at_60"] > 0
    /\ steps[3].inc_final[1] = RMul(RMul(ConfiguredIncome[1], GrowthFactor), GrowthFactor)

\* C25: the age-65 flag is never set while the age-60 flag is clear, the
\* age-60 block never runs in a year after the age-65 block, and a value set
\* by the age-65 block is never replaced afterwards.
C25_Flag65ImpliesFlag60 ==
    /\ pc # "call" => (income_exp_changed_at_65 => income_exp_changed_at_60)
    /\ \A i \in DOMAIN steps :
           /\ steps[i].c65_before => steps[i].c60_before
           /\ Fired65(i) => (steps[i].c60_before \/ Fired60(i))
    /\ \A i, j \in DOMAIN steps :
           (Fired65(i) /\ i <= j) =>
               /\ i < j => ~Fired60(j)
               /\ \A c \in 1 .. 3 :
                      IncomeAt65[c] # 0 =>
                          steps[j].inc_final[c] = Q(IncomeAt65[c] * ManToYen)
               /\ \A k \in ExpKeys :
                      data.expenditure[k \o "_at_65"] # 0 =>
                          steps[j].exp_final[k] = data.expenditure[k \o "_at_65"]

\* the age-60 block ran in year 1 and the age-65 block in year 3, both with a
\* value for the main salary, and the age-65 value is the current one
C25_Witness ==
    /\ Len(steps) >= 3
    /\ Fired60(1) /\ ~Fired65(1)
    /\ Fired65(3) /\ ~Fired60(3)
    /\ IncomeAt60[1] > 0 /\ IncomeAt65[1] > 0
    /\ steps[2].inc_final[1] = Q(IncomeAt60[1] * ManToYen)
    /\ steps[3].inc_final[1] = Q(IncomeAt65[1] * ManToYen)
    /\ income_exp_changed_at_60 /\ income_exp_changed_at_65

NegativeYears(df) == {i \in DOMAIN df : df[i].year_end_assets < 0}

\* C22: after a run the results section shows the negative-assets message
\* exactly when some row has year-end assets below zero; the year it names is
\* the smallest such year and the amount is the minimum of the year-end assets
\* of all rows. In the negative-outcome scenario the year-end assets are
\* -50,000, -150,000, -250,000 and the first negative year is 1.
C22_NegativeAssetsReport ==
    report.kind # "none" =>
        /\ simulation_df # << >>
        /\ report.kind = "negative" <=> NegativeYears(simulation_df) # {}
        /\ report.kind = "negative" =>
               /\ report.first_negative_year \in
                      {simulation_df[i].year : i \in NegativeYears(simulation_df)}
               /\ \A i \in NegativeYears(simulation_df) :
                      report.first_negative_year <= simulation_df[i].year
               /\ \E i \in DOMAIN simulation_df :
                      report.max_negative_amount = simulation_df[i].year_end_assets
               /\ \A i \in DOMAIN simulation_df :
                      report.max_negative_amount <= simulation_df[i].year_end_assets
        /\ df_source = << ScenarioNegative >> =>
               /\ [i \in DOMAIN simulation_df |-> simulation_df[i].year_end_assets]
                      = << -50000, -150000, -250000 >>
               /\ report.kind = "negative"
               /\ report.first_negative_year = 1

\* assets that turn negative in year 2, are lowest in year 3 and are positive
\* again in the last year
C22_Witness ==
    /\ report.kind = "negative"
    /\ report.first_negative_year = 2
    /\ Len(simulation_df) = 5
    /\ simulation_df[1].year_end_assets > 0
    /\ report.max_negative_amount = simulation_df[3].year_end_assets
    /\ simulation_df[3].year_end_assets < simulation_df[2].year_end_assets
    /\ simulation_df[5].year_end_assets > 0

\* C26: with a loan whose amount and term are positive the settings form is
\* rendered without an error and the run button is reached in that rerun.
C26_LoanFormRenders ==
    rerun.loan_configured =>
        (rerun.outcome # "NameError" /\ rerun.run_button_reached)

\* C27: advice is shown only when a non-empty result is stored in the session,
\* and the stored result was computed from the horizon, initial assets and
\* return rate that are handed to the advice generator as current data.
C27_AdviceMatchesResult ==
    suggestion.given =>
        /\ simulation_df # << >>
        /\ df_source # << >>
        /\ df_source[1].family.years_to_simulate = suggestion.years_to_simulate
        /\ df_source[1].family.initial_assets * ManToYen = suggestion.initial_assets
        /\ df_source[1].family.investment_return_rate = suggestion.investment_return_rate

C28_FallbackIsDefaults ==
    uploaded_data.status = "fallback" =>
        uploaded_data.value = PyData(get_initial_data)

====
